---------------------------- MODULE Spec2Model ----------------------------
(***************************************************************************)
(* Local traffic detectors of pkg/proxy/util/iptables/traffic.go.          *)
(*                                                                         *)
(* A detector is a heap object holding four []string slices, each backed   *)
(* by its own array.  The constructors allocate the object and its arrays; *)
(* the accessors return the stored slice header itself (not a copy), so a  *)
(* caller that keeps the returned slice shares the detector's array.       *)
(* Go strings are TLA+ strings; a []string is a slice header               *)
(* [arr, len] over the array heap.                                         *)
(***************************************************************************)
EXTENDS Integers, Sequences, FiniteSets, TLC

VARIABLES objs, arrays, calls, ret, held, pend, stores

vars == <<objs, arrays, calls, ret, held, pend, stores>>

-----------------------------------------------------------------------------
(* Go values *)

\* The nil error and the nil slice; the nil pointer is address 0.
NilErr == "<nil>"
NilSlice == [arr |-> 0, len |-> 0]

\* s[i] for a Go string, i counted from 1.
Ch(s, i) == SubSeq(s, i, i)

\* s[i:] for a Go string, i counted from 0.
From(s, i) == SubSeq(s, i + 1, Len(s))

RECURSIVE IndexFrom(_, _, _)
IndexFrom(s, c, i) ==
    IF i > Len(s) THEN 0
    ELSE IF Ch(s, i) = c THEN i ELSE IndexFrom(s, c, i + 1)

\* strings.IndexByte, counted from 1; 0 when c does not occur in s.
IndexByte(s, c) == IndexFrom(s, c, 1)

-----------------------------------------------------------------------------
(* netutils.ParseCIDRSloppy and netutils.IsIPv6CIDR (k8s.io/utils/net, a   *)
(* fork of Go's net.ParseCIDR that accepts leading zeros in IPv4 octets).  *)
(* The library is not part of this repository's sources; it is modelled    *)
(* after the parse the specification describes: an address, a '/', a       *)
(* decimal prefix length no longer than the address.                       *)

big == 16777215

DecDigits == "0123456789"
HexLower == "0123456789abcdef"
HexUpper == "0123456789ABCDEF"

IsDigit(c) == IndexByte(DecDigits, c) > 0
DigitVal(c) == IndexByte(DecDigits, c) - 1
IsHex(c) == IndexByte(HexLower, c) > 0 \/ IndexByte(HexUpper, c) > 0
HexVal(c) ==
    IF IndexByte(HexLower, c) > 0 THEN IndexByte(HexLower, c) - 1
    ELSE IndexByte(HexUpper, c) - 1

RECURSIVE dtoiFrom(_, _, _)
dtoiFrom(s, i, n) ==
    IF i < Len(s) /\ IsDigit(Ch(s, i + 1))
    THEN LET n2 == n * 10 + DigitVal(Ch(s, i + 1))
         IN  IF n2 >= big THEN [n |-> big, i |-> i, ok |-> FALSE]
             ELSE dtoiFrom(s, i + 1, n2)
    ELSE IF i = 0 THEN [n |-> 0, i |-> 0, ok |-> FALSE]
    ELSE [n |-> n, i |-> i, ok |-> TRUE]

\* Decimal to integer: the number, the characters consumed, success.
dtoi(s) == dtoiFrom(s, 0, 0)

RECURSIVE xtoiFrom(_, _, _)
xtoiFrom(s, i, n) ==
    IF i < Len(s) /\ IsHex(Ch(s, i + 1))
    THEN LET n2 == n * 16 + HexVal(Ch(s, i + 1))
         IN  IF n2 >= big THEN [n |-> 0, i |-> i, ok |-> FALSE]
             ELSE xtoiFrom(s, i + 1, n2)
    ELSE IF i = 0 THEN [n |-> 0, i |-> 0, ok |-> FALSE]
    ELSE [n |-> n, i |-> i, ok |-> TRUE]

\* Hexadecimal to integer.
xtoi(s) == xtoiFrom(s, 0, 0)

\* A nil net.IP is the empty byte sequence.
NilIP == <<>>

Zeros(n) == [k \in 1..n |-> 0]

v4InV6Prefix == <<0, 0, 0, 0, 0, 0, 0, 0, 0, 0, 255, 255>>

\* net.IPv4(a, b, c, d): the 16-byte form of an IPv4 address.
IPv4(p) == v4InV6Prefix \o p

RECURSIVE parseIPv4Loop(_, _, _)
parseIPv4Loop(s, i, p) ==
    IF i = 4 THEN (IF Len(s) # 0 THEN NilIP ELSE IPv4(p))
    ELSE IF Len(s) = 0 THEN NilIP
    ELSE IF i > 0 /\ Ch(s, 1) # "." THEN NilIP
    ELSE LET s1 == IF i > 0 THEN From(s, 1) ELSE s
             r == dtoi(s1)
         IN  IF ~r.ok \/ r.n > 255 THEN NilIP
             ELSE parseIPv4Loop(From(s1, r.i), i + 1, Append(p, r.n))

\* Dotted decimal, four octets, leading zeros accepted.
parseIPv4(s) == parseIPv4Loop(s, 0, <<>>)

\* The tail of parseIPv6: nothing may be left over, and a short address
\* needs an ellipsis, which is expanded to zero bytes.
parseIPv6End(s, ip, ellipsis) ==
    IF Len(s) # 0 THEN NilIP
    ELSE IF Len(ip) < 16
    THEN IF ellipsis < 0 THEN NilIP
         ELSE SubSeq(ip, 1, ellipsis) \o Zeros(16 - Len(ip))
                  \o SubSeq(ip, ellipsis + 1, Len(ip))
    ELSE IF ellipsis >= 0 THEN NilIP
    ELSE ip

RECURSIVE parseIPv6Loop(_, _, _)
parseIPv6Loop(s, ip, ellipsis) ==
    IF Len(ip) >= 16 THEN parseIPv6End(s, ip, ellipsis)
    ELSE LET r == xtoi(s)
         IN  IF ~r.ok \/ r.n > 65535 THEN NilIP
             ELSE IF r.i < Len(s) /\ Ch(s, r.i + 1) = "."
             THEN \* a trailing dotted IPv4 address
                  IF ellipsis < 0 /\ Len(ip) # 12 THEN NilIP
                  ELSE IF Len(ip) + 4 > 16 THEN NilIP
                  ELSE LET ip4 == parseIPv4(s)
                       IN  IF ip4 = NilIP THEN NilIP
                           ELSE parseIPv6End("", ip \o SubSeq(ip4, 13, 16), ellipsis)
             ELSE LET ip2 == ip \o <<r.n \div 256, r.n % 256>>
                      s2 == From(s, r.i)
                  IN  IF Len(s2) = 0 THEN parseIPv6End(s2, ip2, ellipsis)
                      ELSE IF Ch(s2, 1) # ":" \/ Len(s2) = 1 THEN NilIP
                      ELSE IF Ch(s2, 2) = ":"
                      THEN IF ellipsis >= 0 THEN NilIP
                           ELSE IF Len(s2) = 2
                                THEN parseIPv6End("", ip2, Len(ip2))
                                ELSE parseIPv6Loop(From(s2, 2), ip2, Len(ip2))
                      ELSE parseIPv6Loop(From(s2, 1), ip2, ellipsis)

\* Colon-separated hexadecimal groups, at most one "::".
parseIPv6(s) ==
    LET lead == Len(s) >= 2 /\ Ch(s, 1) = ":" /\ Ch(s, 2) = ":"
    IN  IF lead /\ Len(s) = 2 THEN Zeros(16)
        ELSE IF lead THEN parseIPv6Loop(From(s, 2), <<>>, 0)
        ELSE parseIPv6Loop(s, <<>>, -1)

RECURSIVE And8(_, _)
And8(a, b) ==
    IF a = 0 \/ b = 0 THEN 0
    ELSE (a % 2) * (b % 2) + 2 * And8(a \div 2, b \div 2)

RECURSIVE Pow2(_)
Pow2(n) == IF n = 0 THEN 1 ELSE 2 * Pow2(n - 1)

\* net.CIDRMask(ones, bits): ones one-bits followed by zero-bits.
CIDRMask(ones, bits) ==
    [k \in 1..(bits \div 8) |->
        LET o == ones - 8 * (k - 1)
        IN  IF o >= 8 THEN 255 ELSE IF o <= 0 THEN 0 ELSE 256 - Pow2(8 - o)]

\* net.IP.Mask: a 4-byte mask applies to the last four bytes of a 16-byte
\* IPv4 address.
Mask(ip, mask) ==
    LET ip1 == IF Len(mask) = 4 /\ Len(ip) = 16 /\ SubSeq(ip, 1, 12) = v4InV6Prefix
               THEN SubSeq(ip, 13, 16) ELSE ip
    IN  IF Len(ip1) # Len(mask) THEN NilIP
        ELSE [k \in 1..Len(ip1) |-> And8(ip1[k], mask[k])]

\* net.IP.To4: the 4-byte form of an IPv4 address, nil for any other.
To4(ip) ==
    IF Len(ip) = 4 THEN ip
    ELSE IF Len(ip) = 16 /\ SubSeq(ip, 1, 12) = v4InV6Prefix THEN SubSeq(ip, 13, 16)
    ELSE NilIP

ParseError(s) == "invalid CIDR address: " \o s

\* The parsed network [IP, Mask] and the error (NilErr on success).
ParseCIDRSloppy(s) ==
    LET i == IndexByte(s, "/")
        addr == SubSeq(s, 1, i - 1)
        mask == From(s, i)
        ip4 == parseIPv4(addr)
        iplen == IF ip4 # NilIP THEN 4 ELSE 16
        ip == IF ip4 # NilIP THEN ip4 ELSE parseIPv6(addr)
        r == dtoi(mask)
        failed == [net |-> [IP |-> NilIP, Mask |-> NilIP], err |-> ParseError(s)]
    IN  IF i = 0 THEN failed
        ELSE IF ip = NilIP \/ ~r.ok \/ r.i # Len(mask) \/ r.n < 0 \/ r.n > 8 * iplen
        THEN failed
        ELSE LET m == CIDRMask(r.n, 8 * iplen)
             IN  [net |-> [IP |-> Mask(ip, m), Mask |-> m], err |-> NilErr]

\* netutils.IsIPv6CIDR: the network's address is not an IPv4 address.
IsIPv6CIDR(net) == net.IP # NilIP /\ To4(net.IP) = NilIP

-----------------------------------------------------------------------------
(* Bounds and inputs *)

\* Constructor calls made in one run.
MaxCalls == 2

\* Constructor calls made in one run in which callers also store.
MaxSharedCalls == 1

\* Stores callers make through slices they were handed.
MaxStores == 2

\* The goroutines that share the detectors.
Readers == {"r1", "r2"}

\* The goroutine of the owning engine, which constructs the detectors.
Owner == {"r1"}

CIDRInputs ==
    {"10.0.0.0/8", "fd00::/8", "::ffff:10.0.0.0/104",
     "not-a-cidr", "10.0.0.0/33", ""}

InterfaceNameInputs == {"cbr0", "veth", ""}

InterfacePrefixInputs == {"veth", "cali", ""}

\* What a caller writes into a slice element.
StoreTokens == {"x"}

\* What a read that races with a store may see besides the old and the
\* new string: a string header made of halves of both.
Torn == "<torn>"

-----------------------------------------------------------------------------
(* The heap *)

Accessors == {"IfLocal", "IfNotLocal", "IfLocalNFT", "IfNotLocalNFT"}

\* MakeSlice with one package-level scratch array reused by every literal.
MakeSliceScratch(a, toks) ==
    IF Len(a) = 0 THEN [arrays |-> <<toks>>, s |-> [arr |-> 1, len |-> Len(toks)]]
    ELSE [arrays |-> [a EXCEPT ![1] = toks], s |-> [arr |-> 1, len |-> Len(toks)]]

\* The composite literal []string{...}: a fresh backing array and the
\* slice over all of it.
MakeSlice(a, toks) ==
    [arrays |-> Append(a, toks), s |-> [arr |-> Len(a) + 1, len |-> Len(toks)]]

\* &T{...}: a fresh object; its address is its index.
NewObject(o, obj) == Append(o, obj)

\* The strings a slice holds.
Tokens(a, s) == IF s.arr = 0 THEN <<>> ELSE SubSeq(a[s.arr], 1, s.len)

\* A constructor's outcome: the heap after it and the returned pair.
Failed(o, a, msg) == [objs |-> o, arrays |-> a, det |-> 0, err |-> msg]

\* The struct literal with its four slice literals, evaluated in order.
Build(o, a, typ, l, nl, lnft, nlnft) ==
    LET m1 == MakeSlice(a, l)
        m2 == MakeSlice(m1.arrays, nl)
        m3 == MakeSlice(m2.arrays, lnft)
        m4 == MakeSlice(m3.arrays, nlnft)
        obj == [typ |-> typ, ifLocal |-> m1.s, ifNotLocal |-> m2.s,
                ifLocalNFT |-> m3.s, ifNotLocalNFT |-> m4.s]
    IN  [objs |-> NewObject(o, obj), arrays |-> m4.arrays,
         det |-> Len(o) + 1, err |-> NilErr]

-----------------------------------------------------------------------------
(* Constructors *)

\* NewNoOpLocalDetector built as a detector for the match-all CIDR.
NewNoOpAsMatchAll(o, a) ==
    Build(o, a, "detectLocalByCIDR",
          <<"-s", "0.0.0.0/0">>, <<"!", "-s", "0.0.0.0/0">>,
          <<"ip", "saddr", "0.0.0.0/0">>, <<"ip", "saddr", "!=", "0.0.0.0/0">>)

NewNoOpLocalDetector(o, a) ==
    [objs |-> NewObject(o, [typ |-> "noOpLocalDetector"]), arrays |-> a,
     det |-> Len(o) + 1, err |-> NilErr]

\* NewDetectLocalByCIDR that drops the parse error check's return.
NewDetectLocalByCIDRKeepGoing(o, a, cidr) ==
    LET p == ParseCIDRSloppy(cidr)
        nftFamily == IF IsIPv6CIDR(p.net) THEN "ip6" ELSE "ip"
        b == Build(o, a, "detectLocalByCIDR",
                   <<"-s", cidr>>,
                   <<"!", "-s", cidr>>,
                   <<nftFamily, "saddr", cidr>>,
                   <<nftFamily, "saddr", "!=", cidr>>)
    IN  [b EXCEPT !.err = p.err]

\* NewDetectLocalByCIDR with the family test inverted.
NewDetectLocalByCIDRFamilySwapped(o, a, cidr) ==
    LET p == ParseCIDRSloppy(cidr)
        nftFamily == IF IsIPv6CIDR(p.net) THEN "ip" ELSE "ip6"
    IN  IF p.err # NilErr THEN Failed(o, a, p.err)
        ELSE Build(o, a, "detectLocalByCIDR",
                   <<"-s", cidr>>,
                   <<"!", "-s", cidr>>,
                   <<nftFamily, "saddr", cidr>>,
                   <<nftFamily, "saddr", "!=", cidr>>)

NewDetectLocalByCIDR(o, a, cidr) ==
    LET p == ParseCIDRSloppy(cidr)
        nftFamily == IF IsIPv6CIDR(p.net) THEN "ip6" ELSE "ip"
    IN  IF p.err # NilErr THEN Failed(o, a, p.err)
        ELSE Build(o, a, "detectLocalByCIDR",
                   <<"-s", cidr>>,
                   <<"!", "-s", cidr>>,
                   <<nftFamily, "saddr", cidr>>,
                   <<nftFamily, "saddr", "!=", cidr>>)

\* NewDetectLocalByBridgeInterface with the nft inequality left out.
NewDetectLocalByBridgeInterfaceNoNegation(o, a, interfaceName) ==
    IF Len(interfaceName) = 0 THEN Failed(o, a, "no bridge interface name set")
    ELSE Build(o, a, "detectLocalByBridgeInterface",
               <<"-i", interfaceName>>,
               <<"!", "-i", interfaceName>>,
               <<"iif", interfaceName>>,
               <<"iif", interfaceName>>)

\* NewDetectLocalByBridgeInterface with the prefix variant's wildcards.
NewDetectLocalByBridgeInterfaceWildcard(o, a, interfaceName) ==
    IF Len(interfaceName) = 0 THEN Failed(o, a, "no bridge interface name set")
    ELSE Build(o, a, "detectLocalByBridgeInterface",
               <<"-i", interfaceName \o "+">>,
               <<"!", "-i", interfaceName \o "+">>,
               <<"iif", interfaceName \o "*">>,
               <<"iif", "!=", interfaceName \o "*">>)

NewDetectLocalByBridgeInterface(o, a, interfaceName) ==
    IF Len(interfaceName) = 0 THEN Failed(o, a, "no bridge interface name set")
    ELSE Build(o, a, "detectLocalByBridgeInterface",
               <<"-i", interfaceName>>,
               <<"!", "-i", interfaceName>>,
               <<"iif", interfaceName>>,
               <<"iif", "!=", interfaceName>>)

\* NewDetectLocalByInterfaceNamePrefix without the emptiness check.
NewDetectLocalByInterfaceNamePrefixUnchecked(o, a, interfacePrefix) ==
    Build(o, a, "detectLocalByInterfaceNamePrefix",
          <<"-i", interfacePrefix \o "+">>,
          <<"!", "-i", interfacePrefix \o "+">>,
          <<"iif", interfacePrefix \o "*">>,
          <<"iif", "!=", interfacePrefix \o "*">>)

\* NewDetectLocalByInterfaceNamePrefix with the legacy wildcard in the nft
\* sequences.
NewDetectLocalByInterfaceNamePrefixPlus(o, a, interfacePrefix) ==
    IF Len(interfacePrefix) = 0 THEN Failed(o, a, "no interface prefix set")
    ELSE Build(o, a, "detectLocalByInterfaceNamePrefix",
               <<"-i", interfacePrefix \o "+">>,
               <<"!", "-i", interfacePrefix \o "+">>,
               <<"iif", interfacePrefix \o "+">>,
               <<"iif", "!=", interfacePrefix \o "+">>)

NewDetectLocalByInterfaceNamePrefix(o, a, interfacePrefix) ==
    IF Len(interfacePrefix) = 0 THEN Failed(o, a, "no interface prefix set")
    ELSE Build(o, a, "detectLocalByInterfaceNamePrefix",
               <<"-i", interfacePrefix \o "+">>,
               <<"!", "-i", interfacePrefix \o "+">>,
               <<"iif", interfacePrefix \o "*">>,
               <<"iif", "!=", interfacePrefix \o "*">>)

-----------------------------------------------------------------------------
(* Methods, dispatched on the dynamic type of the detector at address d *)

\* IsImplemented with the bridge detector answering like the no-op one.
IsImplementedBridgeFalse(o, d) ==
    CASE o[d].typ = "noOpLocalDetector" -> FALSE
      [] o[d].typ = "detectLocalByCIDR" -> TRUE
      [] o[d].typ = "detectLocalByBridgeInterface" -> FALSE
      [] o[d].typ = "detectLocalByInterfaceNamePrefix" -> TRUE

IsImplemented(o, d) ==
    CASE o[d].typ = "noOpLocalDetector" -> FALSE
      [] o[d].typ = "detectLocalByCIDR" -> TRUE
      [] o[d].typ = "detectLocalByBridgeInterface" -> TRUE
      [] o[d].typ = "detectLocalByInterfaceNamePrefix" -> TRUE

IfLocal(o, d) ==
    IF o[d].typ = "noOpLocalDetector" THEN NilSlice ELSE o[d].ifLocal

IfNotLocal(o, d) ==
    IF o[d].typ = "noOpLocalDetector" THEN NilSlice ELSE o[d].ifNotLocal

IfLocalNFT(o, d) ==
    IF o[d].typ = "noOpLocalDetector" THEN NilSlice ELSE o[d].ifLocalNFT

IfNotLocalNFT(o, d) ==
    IF o[d].typ = "noOpLocalDetector" THEN NilSlice ELSE o[d].ifNotLocalNFT

\* A call through the LocalTrafficDetector interface.
Invoke(o, d, acc) ==
    CASE acc = "IfLocal" -> IfLocal(o, d)
      [] acc = "IfNotLocal" -> IfNotLocal(o, d)
      [] acc = "IfLocalNFT" -> IfLocalNFT(o, d)
      [] acc = "IfNotLocalNFT" -> IfNotLocalNFT(o, d)

-----------------------------------------------------------------------------
(* State *)

\* objs    the detector objects, by address
\* arrays  the backing arrays of the slices, by address
\* calls   constructor calls made so far
\* ret     the last constructor call: function, argument, results
\* held    per reader: the bool and the slice its last calls returned, and
\*         the strings it last read out of that slice
\* pend    per reader: the element store it is in the middle of
\* stores  stores begun so far

NoCall == [fn |-> "", arg |-> "", det |-> 0, err |-> NilErr]
NoRead == <<"<unread>">>
NoStore == [arr |-> 0, i |-> 0, v |-> ""]

Init ==
    /\ objs = <<>>
    /\ arrays = <<>>
    /\ calls = 0
    /\ ret = NoCall
    /\ held = [r \in Readers |-> [b |-> FALSE, s |-> NilSlice, seen |-> NoRead]]
    /\ pend = [r \in Readers |-> NoStore]
    /\ stores = 0

\* The caller of a constructor receives (det, err).
Return(max, fn, arg, out) ==
    /\ calls < max
    /\ calls' = calls + 1
    /\ objs' = out.objs
    /\ arrays' = out.arrays
    /\ ret' = [fn |-> fn, arg |-> arg, det |-> out.det, err |-> out.err]
    /\ UNCHANGED <<held, pend, stores>>

CallNewNoOp(max) ==
    Return(max, "NewNoOpLocalDetector", "", NewNoOpLocalDetector(objs, arrays))

CallNewCIDR(max) ==
    \E cidr \in CIDRInputs :
        Return(max, "NewDetectLocalByCIDR", cidr, NewDetectLocalByCIDR(objs, arrays, cidr))

CallNewBridge(max) ==
    \E n \in InterfaceNameInputs :
        Return(max, "NewDetectLocalByBridgeInterface", n,
               NewDetectLocalByBridgeInterface(objs, arrays, n))

CallNewPrefix(max) ==
    \E p \in InterfacePrefixInputs :
        Return(max, "NewDetectLocalByInterfaceNamePrefix", p,
               NewDetectLocalByInterfaceNamePrefix(objs, arrays, p))

\* A goroutine that is not in the middle of a store calls IsImplemented.
CallIsImplemented(R) ==
    \E r \in R, d \in DOMAIN objs :
        /\ pend[r] = NoStore
        /\ held' = [held EXCEPT ![r].b = IsImplemented(objs, d)]
        /\ UNCHANGED <<objs, arrays, calls, ret, pend, stores>>

\* A goroutine calls one of the four slice accessors and keeps the result.
CallAccessor(R) ==
    \E r \in R, d \in DOMAIN objs, acc \in Accessors :
        /\ pend[r] = NoStore
        /\ held' = [held EXCEPT ![r].s = Invoke(objs, d, acc), ![r].seen = NoRead]
        /\ UNCHANGED <<objs, arrays, calls, ret, pend, stores>>

\* What a read of element k of array arr may yield for goroutine r: the
\* element, or, when another goroutine is storing into it at the same time
\* (a data race), the old string, the new one or a torn one.
Readable(r, arr, k) ==
    {arrays[arr][k]} \cup
    UNION {{pend[w].v, Torn} : w \in {w \in Readers \ {r} :
                                          pend[w].arr = arr /\ pend[w].i = k}}

\* The sequences a read of the first k elements of slice s may yield.
RECURSIVE Readings(_, _, _)
Readings(r, s, k) ==
    IF k = 0 THEN {<<>>}
    ELSE {Append(p, t) : p \in Readings(r, s, k - 1), t \in Readable(r, s.arr, k)}

\* A goroutine reads the strings of the slice it holds (for _, t := range s).
Load(R) ==
    \E r \in R :
        /\ pend[r] = NoStore
        /\ \E toks \in Readings(r, held[r].s, held[r].s.len) :
              held' = [held EXCEPT ![r].seen = toks]
        /\ UNCHANGED <<objs, arrays, calls, ret, pend, stores>>

\* A caller starts the store s[i] = v into a slice it was handed.
StoreBegin(R) ==
    \E r \in R, v \in StoreTokens :
        /\ pend[r] = NoStore
        /\ stores < MaxStores
        /\ stores' = stores + 1
        /\ \E i \in 1..held[r].s.len :
              pend' = [pend EXCEPT ![r] = [arr |-> held[r].s.arr, i |-> i, v |-> v]]
        /\ UNCHANGED <<objs, arrays, calls, ret, held>>

\* The store lands in the backing array.
StoreEnd(R) ==
    \E r \in R :
        /\ pend[r] # NoStore
        /\ arrays' = [arrays EXCEPT ![pend[r].arr][pend[r].i] = pend[r].v]
        /\ pend' = [pend EXCEPT ![r] = NoStore]
        /\ UNCHANGED <<objs, calls, ret, held, stores>>

\* The package as its owner runs it: the constructors, and one goroutine
\* that calls the accessors and reads what they return.
Next ==
    \/ CallNewNoOp(MaxCalls)
    \/ CallNewCIDR(MaxCalls)
    \/ CallNewBridge(MaxCalls)
    \/ CallNewPrefix(MaxCalls)
    \/ CallIsImplemented(Owner)
    \/ CallAccessor(Owner)
    \/ Load(Owner)

Spec == Init /\ [][Next]_vars

\* The package shared by all goroutines, which also write into the slices
\* the accessors handed them.
NextShared ==
    \/ CallNewNoOp(MaxSharedCalls)
    \/ CallNewCIDR(MaxSharedCalls)
    \/ CallNewBridge(MaxSharedCalls)
    \/ CallNewPrefix(MaxSharedCalls)
    \/ CallIsImplemented(Readers)
    \/ CallAccessor(Readers)
    \/ Load(Readers)
    \/ StoreBegin(Readers)
    \/ StoreEnd(Readers)

SpecShared == Init /\ [][NextShared]_vars

-----------------------------------------------------------------------------
(* Properties *)

Dets == DOMAIN objs

\* The strings accessor acc of detector d returns.
Returned(d, acc) == Tokens(arrays, Invoke(objs, d, acc))

\* The same in the next state.
ReturnedNext(d, acc) == Tokens(arrays', Invoke(objs', d, acc))

Built(fn) == ret.fn = fn /\ ret.det # 0

\* seq with tok inserted immediately before its last element.
BeforeLast(seq, tok) ==
    SubSeq(seq, 1, Len(seq) - 1) \o <<tok>> \o SubSeq(seq, Len(seq), Len(seq))

\* C1: for every CIDR, bridge and prefix detector, IfNotLocal() is
\* IfLocal() with "!" put in front, and IfNotLocalNFT() is IfLocalNFT() with
\* "!=" put immediately before its last token.
C1_NotLocalNegatesLocal ==
    \A d \in Dets :
        objs[d].typ # "noOpLocalDetector" =>
            /\ Len(Returned(d, "IfLocal")) > 0
            /\ Len(Returned(d, "IfLocalNFT")) > 0
            /\ Returned(d, "IfNotLocal") = <<"!">> \o Returned(d, "IfLocal")
            /\ Returned(d, "IfNotLocalNFT") = BeforeLast(Returned(d, "IfLocalNFT"), "!=")

\* A bridge and an IPv6 CIDR detector exist, and the owner has read a
\* negated nft sequence.
C1_Witness ==
    /\ \E d \in Dets : objs[d].typ = "detectLocalByBridgeInterface"
    /\ \E d \in Dets : /\ objs[d].typ = "detectLocalByCIDR"
                       /\ Returned(d, "IfLocalNFT")[1] = "ip6"
    /\ held["r1"].seen = <<"iif", "!=", "cbr0">>

\* C3: IsImplemented() is false exactly for the detector that
\* NewNoOpLocalDetector returned, and true for every detector the other
\* three constructors returned.
C3_ImplementedIffNotNoOp ==
    /\ ret.det # 0 =>
          (IsImplemented(objs, ret.det) = FALSE <=> ret.fn = "NewNoOpLocalDetector")
    /\ \A d \in Dets :
          IsImplemented(objs, d) = (objs[d].typ # "noOpLocalDetector")

\* A no-op and a bridge detector exist and the owner was answered true.
C3_Witness ==
    /\ Built("NewDetectLocalByBridgeInterface")
    /\ \E d \in Dets : objs[d].typ = "noOpLocalDetector"
    /\ held["r1"].b = TRUE

\* The inputs that are an address, a slash and a prefix length that fits.
ValidCIDRs == {"10.0.0.0/8", "fd00::/8", "::ffff:10.0.0.0/104"}

\* C4: NewDetectLocalByCIDR returns an error and no detector exactly for
\* the inputs that are no valid address/prefix-length pair, the error being
\* the parse error for that input, and a detector and no error otherwise.
C4_CIDRFailsIffMalformed ==
    ret.fn = "NewDetectLocalByCIDR" =>
        /\ (ret.err # NilErr) <=> (ret.arg \notin ValidCIDRs)
        /\ (ret.err # NilErr) <=> (ret.det = 0)
        /\ ret.err # NilErr => ret.err = "invalid CIDR address: " \o ret.arg
        /\ ret.det # 0 => ret.det \in Dets /\ objs[ret.det].typ = "detectLocalByCIDR"

\* A call with "not-a-cidr" failed after a call that built a detector.
C4_Witness ==
    /\ ret.fn = "NewDetectLocalByCIDR"
    /\ ret.arg = "not-a-cidr"
    /\ ret.err = "invalid CIDR address: not-a-cidr"
    /\ \E d \in Dets : objs[d].typ = "detectLocalByCIDR"

\* C5: NewDetectLocalByBridgeInterface and
\* NewDetectLocalByInterfaceNamePrefix fail exactly on the empty string,
\* with no detector and their own message, and otherwise return a detector
\* and no error.
C5_EmptyNameFails ==
    /\ ret.fn = "NewDetectLocalByBridgeInterface" =>
          IF ret.arg = ""
          THEN ret.det = 0 /\ ret.err = "no bridge interface name set"
          ELSE /\ ret.det \in Dets /\ ret.err = NilErr
               /\ objs[ret.det].typ = "detectLocalByBridgeInterface"
    /\ ret.fn = "NewDetectLocalByInterfaceNamePrefix" =>
          IF ret.arg = ""
          THEN ret.det = 0 /\ ret.err = "no interface prefix set"
          ELSE /\ ret.det \in Dets /\ ret.err = NilErr
               /\ objs[ret.det].typ = "detectLocalByInterfaceNamePrefix"

\* The prefix constructor failed on "" after the bridge one succeeded.
C5_Witness ==
    /\ ret.fn = "NewDetectLocalByInterfaceNamePrefix"
    /\ ret.arg = ""
    /\ ret.err = "no interface prefix set"
    /\ \E d \in Dets : objs[d].typ = "detectLocalByBridgeInterface"

\* The nft family keyword of a valid CIDR: that of its parsed network.
FamilyOf(cidr) == IF IsIPv6CIDR(ParseCIDRSloppy(cidr).net) THEN "ip6" ELSE "ip"

\* C6: a detector built by NewDetectLocalByCIDR(cidr) returns
\* ["-s", cidr], ["!", "-s", cidr], [family, "saddr", cidr] and
\* [family, "saddr", "!=", cidr], family being "ip" for an IPv4 and "ip6"
\* for an IPv6 parsed prefix.
C6_CIDRTokens ==
    Built("NewDetectLocalByCIDR") =>
        /\ Returned(ret.det, "IfLocal") = <<"-s", ret.arg>>
        /\ Returned(ret.det, "IfNotLocal") = <<"!", "-s", ret.arg>>
        /\ Returned(ret.det, "IfLocalNFT") = <<FamilyOf(ret.arg), "saddr", ret.arg>>
        /\ Returned(ret.det, "IfNotLocalNFT") =
               <<FamilyOf(ret.arg), "saddr", "!=", ret.arg>>
        /\ ret.arg = "10.0.0.0/8" => Returned(ret.det, "IfLocalNFT")[1] = "ip"
        /\ ret.arg = "fd00::/8" => Returned(ret.det, "IfLocalNFT")[1] = "ip6"

\* The IPv6 detector was built after the IPv4 one, and the owner has read
\* its negated nft sequence.
C6_Witness ==
    /\ Built("NewDetectLocalByCIDR")
    /\ ret.arg = "fd00::/8"
    /\ held["r1"].seen = <<"ip6", "saddr", "!=", "fd00::/8">>
    /\ \E d \in Dets : Returned(d, "IfLocalNFT") = <<"ip", "saddr", "10.0.0.0/8">>

\* C7: NewNoOpLocalDetector never fails, and all four accessors of the
\* detector it returns, and of every no-op detector, return the empty
\* sequence.
C7_NoOpEmpty ==
    /\ ret.fn = "NewNoOpLocalDetector" =>
          /\ ret.err = NilErr
          /\ ret.det \in Dets
          /\ \A acc \in Accessors : Returned(ret.det, acc) = <<>>
    /\ \A d \in Dets :
          objs[d].typ = "noOpLocalDetector" =>
              \A acc \in Accessors : Invoke(objs, d, acc) = NilSlice

\* A no-op detector was built next to a real one, and the owner has read
\* an accessor result of the no-op one.
C7_Witness ==
    /\ Built("NewNoOpLocalDetector")
    /\ Len(objs) = 2
    /\ objs[1].typ # "noOpLocalDetector"
    /\ held["r1"].s = NilSlice
    /\ held["r1"].seen = <<>>

\* C8: a detector built by NewDetectLocalByInterfaceNamePrefix(p) returns
\* ["-i", p+"+"], ["!", "-i", p+"+"], ["iif", p+"*"] and
\* ["iif", "!=", p+"*"].
C8_PrefixTokens ==
    Built("NewDetectLocalByInterfaceNamePrefix") =>
        /\ Returned(ret.det, "IfLocal") = <<"-i", ret.arg \o "+">>
        /\ Returned(ret.det, "IfNotLocal") = <<"!", "-i", ret.arg \o "+">>
        /\ Returned(ret.det, "IfLocalNFT") = <<"iif", ret.arg \o "*">>
        /\ Returned(ret.det, "IfNotLocalNFT") = <<"iif", "!=", ret.arg \o "*">>

\* The prefix detector for "veth" was built and the owner has read "veth*".
C8_Witness ==
    /\ Built("NewDetectLocalByInterfaceNamePrefix")
    /\ ret.arg = "veth"
    /\ held["r1"].seen = <<"iif", "veth*">>

\* C9: a detector built by NewDetectLocalByBridgeInterface(n) returns
\* ["-i", n], ["!", "-i", n], ["iif", n] and ["iif", "!=", n], the name
\* unmodified.
C9_BridgeTokens ==
    Built("NewDetectLocalByBridgeInterface") =>
        /\ Returned(ret.det, "IfLocal") = <<"-i", ret.arg>>
        /\ Returned(ret.det, "IfNotLocal") = <<"!", "-i", ret.arg>>
        /\ Returned(ret.det, "IfLocalNFT") = <<"iif", ret.arg>>
        /\ Returned(ret.det, "IfNotLocalNFT") = <<"iif", "!=", ret.arg>>

\* The bridge detector for "cbr0" was built and the owner has read its
\* legacy sequence.
C9_Witness ==
    /\ Built("NewDetectLocalByBridgeInterface")
    /\ ret.arg = "cbr0"
    /\ held["r1"].seen = <<"-i", "cbr0">>

\* A step that is a constructor call.
ConstructorStep == calls' = calls + 1

\* C10: a constructor call, failed or not, leaves the IsImplemented value
\* and the four sequences of every existing detector as they were, and a
\* call that repeats the previous call's input returns another detector
\* with the same IsImplemented value and the same four sequences.
C10_ConstructorsIndependent ==
    [][ConstructorStep =>
        /\ \A d \in Dets :
              /\ d \in DOMAIN objs'
              /\ IsImplemented(objs', d) = IsImplemented(objs, d)
              /\ \A acc \in Accessors : ReturnedNext(d, acc) = Returned(d, acc)
        /\ (ret.det # 0 /\ ret'.det # 0 /\ ret'.fn = ret.fn /\ ret'.arg = ret.arg) =>
              /\ ret'.det # ret.det
              /\ IsImplemented(objs', ret'.det) = IsImplemented(objs, ret.det)
              /\ \A acc \in Accessors :
                    /\ ReturnedNext(ret'.det, acc) = Returned(ret.det, acc)
                    /\ ReturnedNext(ret'.det, acc) = ReturnedNext(ret.det, acc)
       ]_vars

\* Two detectors built from the same prefix exist side by side.
C10_Witness ==
    /\ Len(objs) = 2
    /\ Built("NewDetectLocalByInterfaceNamePrefix")
    /\ ret.det = 2
    /\ \A acc \in Accessors : Returned(1, acc) = Returned(2, acc)
    /\ Invoke(objs, 1, "IfLocal") # Invoke(objs, 2, "IfLocal")

\* C2: the strings every accessor of every constructed detector returns,
\* and its IsImplemented value, are the same after any step of any
\* goroutine, stores into handed-out slices included.
C2_SequencesNeverChange ==
    [][\A d \in Dets :
          /\ IsImplemented(objs', d) = IsImplemented(objs, d)
          /\ \A acc \in Accessors : ReturnedNext(d, acc) = Returned(d, acc)
      ]_vars

=============================================================================
